---- MODULE Spec2Model ----
(***************************************************************************)
(* Model of CategoryGraphBot (wikigraphviz.py): the depth-bounded          *)
(* recursive traversal scan_level and the graph reduction loop of run.     *)
(*                                                                         *)
(* A category is identified with its title; titles are the integers        *)
(* 1..NumCats, whose numeric order stands for the order sorted() gives.    *)
(* The pydot graph (self.dot) is modelled by the order-preserving lists    *)
(* of the node names and of the (source, destination) pairs added to it.   *)
(***************************************************************************)
EXTENDS Integers, Sequences, FiniteSets, TLC

\* ---- bounds of the model ----
NumCats == 3        \* number of categories of the category source
MaxEdges == 4       \* largest number of (category, subcategory) pairs of the source
MaxDepth == 3       \* largest value of args.depth
\* The two thresholds of the code, 1e4 (line 141) and 1000 (line 163),
\* scaled down so that bounded category graphs reach them.
NodeCap == 5
ReduceThreshold == 2

Cats == 1..NumCats
None == 0

VARIABLES
    subcats,    \* category source: cat.subcategories() of every category
    root,       \* self.cat
    depth,      \* args.depth
    pc,         \* position of run(): "init", "scan", "check", "limit", "save", "error"
    stack,      \* call stack of scan_level, innermost call last
    dotNodes,   \* self.dot: names of the nodes, in insertion order
    dotEdges,   \* self.dot: (source, destination) of the edges, in insertion order
    rev,        \* self.rev
    fw,         \* self.fw
    leaves,     \* self.leaves
    counter,    \* self.counter
    todo,       \* leaves the loop "for n in self.leaves" has not visited yet
    n,          \* loop variable n of run(), None outside the while loop
    pass,       \* number of the reduction pass being run (1 in run())
    scanned     \* history: self.dot and self.fw when scan_level returned to run()

vars == <<subcats, root, depth, pc, stack, dotNodes, dotEdges, rev, fw,
          leaves, counter, todo, n, pass, scanned>>

\* ---- helpers ----
Min(S) == CHOOSE x \in S : \A y \in S : x <= y
Max(S) == CHOOSE x \in S : \A y \in S : x >= y

RECURSIVE Sorted(_)
\* sorted(cat.subcategories())
Sorted(S) == IF S = {} THEN <<>> ELSE <<Min(S)>> \o Sorted(S \ {Min(S)})

Range(s) == {s[k] : k \in 1..Len(s)}

\* list without the entries equal to x (pydot del_node / del_edge delete
\* every entry of that name and do nothing when there is none)
Without(s, x) == SelectSeq(s, LAMBDA y : y # x)

\* list.remove(x) where x is in the list: the list without the first
\* occurrence of x
RemoveFirst(s, x) ==
    IF \A j \in 1..Len(s) : s[j] # x THEN s
    ELSE LET k == Min({j \in 1..Len(s) : s[j] = x})
         IN  SubSeq(s, 1, k - 1) \o SubSeq(s, k + 1, Len(s))

\* categories reachable from r in k steps or fewer
RECURSIVE Reach(_, _, _)
Reach(g, S, k) ==
    IF k = 0 THEN S
    ELSE Reach(g, S \cup UNION {g[c] : c \in S}, k - 1)

\* number of (category, subcategory) pairs of the category source g
RECURSIVE SizeUpTo(_, _)
SizeUpTo(g, k) == IF k = 0 THEN 0 ELSE Cardinality(g[k]) + SizeUpTo(g, k - 1)
Size(g) == SizeUpTo(g, NumCats)

Top == stack[Len(stack)]
Pop == SubSeq(stack, 1, Len(stack) - 1)
Frame(c, l) == [cat |-> c, level |-> l, at |-> "enter", i |-> 0]

Init ==
    /\ root \in Cats
    /\ depth \in 0..MaxDepth
    /\ subcats \in [Cats -> SUBSET Cats]
    /\ Size(subcats) <= MaxEdges
    \* categories the root does not reach play no part in a run
    /\ \A c \in Cats \ Reach(subcats, {root}, NumCats) : subcats[c] = {}
    /\ pc = "init"
    /\ stack = <<>>
    /\ dotNodes = <<>>
    /\ dotEdges = <<>>
    /\ rev = [c \in Cats |-> <<>>]
    /\ fw = [c \in Cats |-> <<>>]
    /\ leaves = {}
    /\ counter = 0
    /\ todo = {}
    /\ n = None
    /\ pass = 1
    /\ scanned = [dotNodes |-> <<>>, dotEdges |-> <<>>, fw |-> [c \in Cats |-> <<>>]]

\* ---- scan_level ----

\* run(), line 161: self.scan_level(self.cat, int(self.args.depth))
Run ==
    /\ pc = "init"
    /\ pc' = "scan"
    /\ stack' = <<Frame(root, depth)>>
    /\ UNCHANGED <<subcats, root, depth, dotNodes, dotEdges, rev, fw, leaves,
                   counter, todo, n, pass, scanned>>

\* the state of run() and of the stack when the innermost call returns
Return ==
    /\ stack' = Pop
    /\ pc' = IF Len(stack) = 1 THEN "check" ELSE "scan"
    /\ scanned' = IF Len(stack) = 1
                  THEN [dotNodes |-> dotNodes', dotEdges |-> dotEdges', fw |-> fw']
                  ELSE scanned

\* mutant: the test forgets the level
IsLeafCallNoLevel(level, cnt) == cnt >= NodeCap

\* mutant: the test forgets the cap
IsLeafCallNoCap(level, cnt) == level = 0

\* the termination test of line 141, on the counter after the increment
IsLeafCall(level, cnt) == level = 0 \/ cnt >= NodeCap

\* mutant: the add_node call is missing
AddNodeMissing(nodes, name) == nodes

\* line 139: self.dot.add_node(node)
AddNode(nodes, name) == Append(nodes, name)

\* lines 138-147: add the node, count it, then return as a leaf or go on
\* to the loop over the subcategories
Enter ==
    /\ pc = "scan"
    /\ Top.at = "enter"
    /\ dotNodes' = AddNode(dotNodes, Top.cat)
    /\ counter' = counter + 1
    /\ IF IsLeafCall(Top.level, counter')
       THEN /\ leaves' = leaves \cup {Top.cat}
            /\ UNCHANGED <<dotEdges, fw>>
            /\ Return
       ELSE /\ stack' = [stack EXCEPT ![Len(stack)].at = "loop", ![Len(stack)].i = 1]
            /\ UNCHANGED <<leaves, pc, scanned, dotEdges, fw>>
    /\ UNCHANGED <<subcats, root, depth, rev, todo, n, pass>>

\* mutant: the recursive call passes its own level on
CalleeLevelSame(level) == level

\* the level the recursive call of line 154 is made with
CalleeLevel(level) == level - 1

\* lines 148-154: add the edge to the next subcategory, then call
\* scan_level on it
Loop ==
    /\ pc = "scan"
    /\ Top.at = "loop"
    /\ Top.i <= Len(Sorted(subcats[Top.cat]))
    /\ LET subcat == Sorted(subcats[Top.cat])[Top.i]
       IN  /\ dotEdges' = Append(dotEdges, <<Top.cat, subcat>>)
           /\ stack' = Append([stack EXCEPT ![Len(stack)].at = "record"],
                              Frame(subcat, CalleeLevel(Top.level)))
    /\ UNCHANGED <<subcats, root, depth, pc, dotNodes, rev, fw, leaves,
                   counter, todo, n, pass, scanned>>

\* lines 156-157, after the recursive call returned
Record ==
    /\ pc = "scan"
    /\ Top.at = "record"
    /\ LET subcat == Sorted(subcats[Top.cat])[Top.i]
       IN  /\ rev' = [rev EXCEPT ![subcat] = Append(@, Top.cat)]
           /\ fw' = [fw EXCEPT ![Top.cat] = Append(@, subcat)]
    /\ stack' = [stack EXCEPT ![Len(stack)].at = "loop", ![Len(stack)].i = @ + 1]
    /\ UNCHANGED <<subcats, root, depth, pc, dotNodes, dotEdges, leaves,
                   counter, todo, n, pass, scanned>>

\* line 148, subcategories exhausted: scan_level returns
LoopEnd ==
    /\ pc = "scan"
    /\ Top.at = "loop"
    /\ Top.i > Len(Sorted(subcats[Top.cat]))
    /\ UNCHANGED <<dotNodes, dotEdges, fw>>
    /\ Return
    /\ UNCHANGED <<subcats, root, depth, rev, leaves, counter, todo, n, pass>>

\* ---- run: reduction of a too big graph ----

\* line 163
Check ==
    /\ pc = "check"
    /\ IF counter > ReduceThreshold
       THEN pc' = "limit" /\ todo' = leaves
       ELSE pc' = "save" /\ todo' = todo
    /\ UNCHANGED <<subcats, root, depth, stack, dotNodes, dotEdges, rev, fw,
                   leaves, counter, n, pass, scanned>>

\* line 166: the next element of the set self.leaves, in the set's order
NextLeaf ==
    /\ pc = "limit"
    /\ n = None
    /\ \E l \in todo :
        /\ n' = l
        /\ todo' = todo \ {l}
    /\ UNCHANGED <<subcats, root, depth, pc, stack, dotNodes, dotEdges, rev,
                   fw, leaves, counter, pass, scanned>>

\* mutant: the climb never stops at a parent that keeps children
StopsNever(f, parent) == FALSE

\* line 173: the parent keeps other children, so the climb stops
StopsAt(f, parent) == f[parent] # <<>>

\* line 172: list.remove(m) raises ValueError when m is not in the list
Raises(f, parent, m) == m \notin Range(f[parent])

\* mutant: lines 172-174 moved before lines 170-171, so that a node whose
\* parent keeps other children stays in the graph
PruneLate(s) ==
    IF Len(rev[s.n]) # 1
    THEN [s EXCEPT !.n = None]
    ELSE LET parent == rev[s.n][1]
         IN  IF Raises(s.fw, parent, s.n)
             THEN [s EXCEPT !.n = None, !.ok = FALSE]
             ELSE LET f == [s.fw EXCEPT ![parent] = RemoveFirst(@, s.n)]
                  IN  IF StopsAt(f, parent)
                      THEN [s EXCEPT !.fw = f, !.n = None]
                      ELSE [dotNodes |-> Without(s.dotNodes, s.n),
                            dotEdges |-> Without(s.dotEdges, <<parent, s.n>>),
                            fw |-> f, n |-> parent, ok |-> TRUE]

\* lines 167-175: one evaluation of the while condition and, when it
\* holds, one execution of the loop body, on the state s = [dotNodes,
\* dotEdges, fw, n, ok]; n = None says the while loop was left and
\* ok = FALSE that fw[...].remove(n) raised ValueError
Prune(s) ==
    IF Len(rev[s.n]) # 1
    THEN [s EXCEPT !.n = None]
    ELSE LET parent == rev[s.n][1]
             nodes == Without(s.dotNodes, s.n)
             edges == Without(s.dotEdges, <<parent, s.n>>)
         IN  IF Raises(s.fw, parent, s.n)
             THEN [dotNodes |-> nodes, dotEdges |-> edges, fw |-> s.fw,
                   n |-> None, ok |-> FALSE]
             ELSE LET f == [s.fw EXCEPT ![parent] = RemoveFirst(@, s.n)]
                  IN  [dotNodes |-> nodes, dotEdges |-> edges, fw |-> f,
                       n |-> IF StopsAt(f, parent) THEN None ELSE parent,
                       ok |-> TRUE]

Cur == [dotNodes |-> dotNodes, dotEdges |-> dotEdges, fw |-> fw, n |-> n, ok |-> TRUE]

While ==
    /\ pc = "limit"
    /\ n # None
    /\ LET s == Prune(Cur)
       IN  /\ dotNodes' = s.dotNodes
           /\ dotEdges' = s.dotEdges
           /\ fw' = s.fw
           /\ n' = s.n
           /\ pc' = IF s.ok THEN "limit" ELSE "error"
    /\ UNCHANGED <<subcats, root, depth, stack, rev, leaves, counter, todo,
                   pass, scanned>>

\* line 166, set exhausted: on to line 176
LimitEnd ==
    /\ pc = "limit"
    /\ n = None
    /\ todo = {}
    /\ pc' = "save"
    /\ UNCHANGED <<subcats, root, depth, stack, dotNodes, dotEdges, rev, fw,
                   leaves, counter, todo, n, pass, scanned>>

Next ==
    \/ Run
    \/ Enter
    \/ Loop
    \/ Record
    \/ LoopEnd
    \/ Check
    \/ NextLeaf
    \/ While
    \/ LimitEnd

Spec == Init /\ [][Next]_vars

\* run() is one sequential thread that is never suspended
FairSpec == Spec /\ WF_vars(Next)

\* ---- the reduction loop run a second time ----

\* lines 166-175 executed once more, right after a pass that completed,
\* on the same self.dot, self.rev, self.fw and self.leaves
Rerun ==
    /\ pc = "save"
    /\ pass = 1
    /\ counter > ReduceThreshold
    /\ pc' = "limit"
    /\ todo' = leaves
    /\ pass' = 2
    /\ UNCHANGED <<subcats, root, depth, stack, dotNodes, dotEdges, rev, fw,
                   leaves, counter, n, scanned>>

NextTwice ==
    \/ Next
    \/ Rerun

SpecTwice == Init /\ [][NextTwice]_vars

\* ---- the reduction loop as a function of the order of self.leaves ----

\* lines 167-175: the while loop, run until it is left
RECURSIVE WhileLoop(_)
WhileLoop(s) == IF s.n = None THEN s ELSE WhileLoop(Prune(s))

\* lines 166-175: the for loop over the leaves in the given order; an
\* exception ends it
RECURSIVE ForLoop(_, _)
ForLoop(s, order) ==
    IF order = <<>> \/ ~s.ok THEN s
    ELSE ForLoop(WhileLoop([s EXCEPT !.n = Head(order)]), Tail(order))

\* what run() goes on to write: the graph, or nothing after an exception
Outcome(s) ==
    IF s.ok THEN [ok |-> TRUE, dotNodes |-> s.dotNodes, dotEdges |-> s.dotEdges]
    ELSE [ok |-> FALSE, dotNodes |-> <<>>, dotEdges |-> <<>>]

TypeOK ==
    /\ pc \in {"init", "scan", "check", "limit", "save", "error"}
    /\ counter \in Nat
    /\ leaves \subseteq Cats
    /\ n \in Cats \cup {None}

\* ---- claims ----

Scanned == pc \notin {"init", "scan"}
Limited == counter > ReduceThreshold
EdgeAdded == Len(dotEdges') > Len(dotEdges)
\* the step removes node n from self.dot
Removed == pc = "limit" /\ n # None /\ n \in Range(dotNodes) /\ n \notin Range(dotNodes')

\* C1 (as claimed): when the traversal has completed, Counter equals the
\* number of add_node calls made, and Counter never exceeds the cap.
C1_CounterWithinCap ==
    /\ counter <= NodeCap
    /\ pc = "check" => counter = Len(dotNodes)

\* the largest number of subcategories of a category
MaxFan == Max({Cardinality(subcats[c]) : c \in Cats})

\* C1 (amended): during the traversal and when it has completed, Counter
\* equals the number of add_node calls made; Counter can exceed the cap,
\* by the calls the loops already on the stack still make, which is at
\* most maxDepth times (the largest number of subcategories - 1).
C1_CounterCountsNodes ==
    /\ pc \in {"scan", "check"} => counter = Len(dotNodes)
    /\ counter <= NodeCap + depth * Max({MaxFan - 1, 0})

C1_Witness ==
    /\ pc = "check"
    /\ counter > NodeCap

\* C2 (as claimed): whenever an edge (parent, child) is added to the graph,
\* both the parent node and the child node have already been added.
C2_EndpointsBeforeEdge ==
    [][EdgeAdded =>
        LET e == dotEdges'[Len(dotEdges')]
        IN  e[1] \in Range(dotNodes) /\ e[2] \in Range(dotNodes)]_vars

\* C2 (amended): during the traversal the source of every edge of the graph
\* is a node of the graph, and so is its destination, except for the newest
\* edge while the recursive call made for its destination has not yet
\* added that node.
C2_ParentBeforeEdge ==
    pc \in {"scan", "check"} =>
        \A k \in 1..Len(dotEdges) :
            /\ dotEdges[k][1] \in Range(dotNodes)
            /\ \/ dotEdges[k][2] \in Range(dotNodes)
               \/ /\ k = Len(dotEdges)
                  /\ pc = "scan"
                  /\ Top.at = "enter"
                  /\ Top.cat = dotEdges[k][2]

C2_Witness ==
    /\ pc = "scan"
    /\ Len(dotEdges) > 0
    /\ dotEdges[Len(dotEdges)][2] \notin Range(dotNodes)

\* C3: every recursive call of scan_level is made with the caller's level
\* minus one, and the traversal started at a level >= 0 terminates, also on
\* a category graph with cycles.
C3_DepthDecreasesAndTerminates ==
    /\ [][(pc = "scan" /\ Len(stack') > Len(stack)) =>
            stack'[Len(stack')].level = Top.level - 1]_vars
    /\ <>Scanned

C3_Witness ==
    /\ pc = "check"
    /\ root \in subcats[root]
    /\ depth >= 2
    /\ Len(dotEdges) >= 2

\* C8: with maxDepth = 0 the traversal creates exactly one node, the root,
\* and no edge, leaves both adjacency mappings empty and records the root
\* in the Leaf Set, whatever the subcategories of the root.
C8_DepthZero ==
    (depth = 0 /\ Scanned) =>
        /\ dotNodes = <<root>>
        /\ dotEdges = <<>>
        /\ counter = 1
        /\ \A c \in Cats : rev[c] = <<>> /\ fw[c] = <<>>
        /\ leaves = {root}

C8_Witness ==
    /\ depth = 0
    /\ pc = "save"
    /\ Cardinality(subcats[root]) >= 2

\* C4: the graph left after the reduction pass (or the failure of the
\* pass) is the one the pass leaves when it visits the leaves in sorted
\* order: it does not depend on the iteration order of the set self.leaves.
\* The traversal before it has no choice to make, so two runs on the same
\* source and configuration end with the same nodes and edges in the same
\* order.
C4_OrderIndependent ==
    (pc \in {"save", "error"} /\ Limited /\ pass = 1) =>
        Outcome([Cur EXCEPT !.ok = (pc = "save")])
          = Outcome(ForLoop([dotNodes |-> scanned.dotNodes,
                             dotEdges |-> scanned.dotEdges,
                             fw |-> scanned.fw, n |-> None, ok |-> TRUE],
                            Sorted(leaves)))

\* two leaves were pruned, so two orders of visiting them exist
C4_Witness ==
    /\ pc = "save"
    /\ Limited
    /\ Cardinality(leaves) >= 2
    /\ Len(dotNodes) + 2 <= Len(scanned.dotNodes)
    /\ dotNodes # <<>>

\* C5: a second pass right after a first one removes no node
\* and no edge, changes no adjacency list and completes normally.
C5_SecondPassNoOp ==
    [][(pass = 2 /\ pass' = 2) =>
        /\ dotNodes' = dotNodes
        /\ dotEdges' = dotEdges
        /\ fw' = fw
        /\ pc' # "error"]_vars

\* C6 (as claimed): the reduction pass never removes a node that has a
\* sibling, that is a node whose single recorded parent had two or more
\* children in its forward list when the traversal finished.
C6_NoSiblingRemoved ==
    [][Removed =>
        ~(Len(rev[n]) = 1 /\ Len(scanned.fw[rev[n][1]]) >= 2)]_vars

\* C6 (amended): the reduction pass removes only nodes with exactly one
\* recorded parent that are in the Leaf Set or whose forward list is empty,
\* whether or not they have siblings; after a removal the climb stops when
\* the parent's forward list is still non-empty and goes on to the parent
\* otherwise.
C6_RemovesSingleParentTails ==
    [][Removed =>
        /\ Len(rev[n]) = 1
        /\ n \in leaves \/ fw[n] = <<>>
        /\ pc' = "limit" =>
             n' = IF fw'[rev[n][1]] # <<>> THEN None ELSE rev[n][1]]_vars

\* a node with a sibling was removed
C6_Witness ==
    /\ pc = "limit"
    /\ \E c \in Cats :
        /\ c \in Range(scanned.dotNodes) /\ c \notin Range(dotNodes)
        /\ Len(rev[c]) = 1
        /\ Len(scanned.fw[rev[c][1]]) >= 2

\* C7: a node is removed from the graph only if, at the moment of removal,
\* its forward adjacency list holds no child that is still in the graph.
C7_RemovedOnlyWithoutChildren ==
    [][Removed => \A c \in Range(fw[n]) : c \notin Range(dotNodes)]_vars

\* C9: Counter never decreases; every call creates one node; once Counter
\* has reached the cap, a call that creates a node records it in the Leaf
\* Set and returns without adding an edge or calling itself; the loops of
\* the callers on the stack still go on to their remaining subcategories.
C9_CapForcesLeaves ==
    [][/\ counter' >= counter
       /\ (pc = "scan" /\ Top.at = "enter") =>
            counter' = counter + 1 /\ Len(dotNodes') = Len(dotNodes) + 1
       /\ (counter' > counter /\ counter' >= NodeCap) =>
            /\ leaves' = leaves \cup {Top.cat}
            /\ stack' = Pop
            /\ dotEdges' = dotEdges
       /\ (pc = "scan" /\ counter >= NodeCap /\ Top.at = "loop"
             /\ Top.i <= Len(Sorted(subcats[Top.cat]))) =>
            /\ EdgeAdded
            /\ Len(stack') = Len(stack) + 1
            /\ stack'[Len(stack')].at = "enter"]_vars

\* a sibling was visited after the cap was reached
C9_Witness ==
    /\ counter > NodeCap
    /\ pc = "scan"
    /\ Len(stack) >= 1

\* C10: the reduction pass always terminates normally: every
\* fw[parent].remove(n) finds n in the parent's forward list.
C10_LimiterCompletes == pc # "error"
====
